---- MODULE Spec2Model ----
(***************************************************************************)
(* Model of aws-lc-rs/src/ec.rs: elliptic-curve key construction,          *)
(* validation, private-scalar export and ECDSA signature re-encoding.      *)
(*                                                                         *)
(* The curve engine (aws-lc) is external.  Each engine call is an operator *)
(* whose outcome is decided by an oracle chosen by the caller's action:    *)
(* what a parser makes of the input bytes, and which engine calls report   *)
(* failure.  Engine handles live in a per-call heap that counts how often  *)
(* each handle is released, and every engine call is appended to a log.    *)
(***************************************************************************)
EXTENDS Integers, Sequences, FiniteSets, TLC

\* ------------------------------------------------------------------------
\* Bounds of the model
\* ------------------------------------------------------------------------
\* how many engine calls may report a spurious failure within one call
MaxFaults == 1
\* how many bytes beyond a boundary length (n, 2n) a sampled BIGNUM may have
MaxExcess == 1
\* how many high zero limbs a sampled BIGNUM may carry above its top digit
MaxSlack == 1
\* width of usize and of the engine's c_long, scaled to small integers
USIZE_BITS == 16

\* ------------------------------------------------------------------------
\* Program constants
\* ------------------------------------------------------------------------
ELEM_MAX_BITS == 521
ELEM_MAX_BYTES == (ELEM_MAX_BITS + 7) \div 8
SCALAR_MAX_BYTES == ELEM_MAX_BYTES

NULL == 0
Curves == {"P-256", "P-384", "P-521"}
Nids == Curves \cup {"unknown"}
\* how a key or point fares with the engine's consistency checks:
\* "bad" fails EC_KEY_check_key, "std" passes it but fails EC_KEY_check_fips,
\* "fips" passes both
Quality == {"bad", "std", "fips"}

USIZE_MAX == 2^USIZE_BITS - 1
\* c_long is signed and no wider than usize
C_LONG_MAX == 2^(USIZE_BITS - 1) - 1

VARIABLES
    fips,      \* cfg(feature = "fips") of the build
    debug,     \* cfg(debug_assertions) of the build (also overflow checks)
    op,        \* the function of ec.rs called last
    args,      \* its arguments and the engine's oracle for them
    heap,      \* engine handles of the call: sequence of objects
    log,       \* engine calls made by the call, in order
    result     \* what the call returned

vars == <<fips, debug, op, args, heap, log, result>>

\* ------------------------------------------------------------------------
\* Engine heap
\* ------------------------------------------------------------------------
NewObj(kind, src) ==
    [kind |-> kind, src |-> src, rel |-> 0, direct |-> 0, parent |-> NULL, ext |-> FALSE,
     nid |-> "none", q |-> "fips", ec |-> NULL, hasPub |-> FALSE,
     hasPriv |-> FALSE, bn |-> <<>>, nidck |-> FALSE, keyck |-> FALSE]

Logged(m, name) == [m EXCEPT !.log = Append(m.log, name)]

Alloc(m, obj) ==
    [m |-> [m EXCEPT !.heap = Append(m.heap, obj)], ptr |-> Len(m.heap) + 1]

SetObj(m, h, obj) == [m EXCEPT !.heap[h] = obj]

\* the engine's *_free: releases the handle and whatever it owns.
\* rel counts the releases of an object, direct those made through its own handle
Free(m, h) ==
    [m EXCEPT !.heap =
        [i \in DOMAIN m.heap |->
            IF i = h
            THEN [m.heap[i] EXCEPT !.rel = m.heap[i].rel + 1, !.direct = m.heap[i].direct + 1]
            ELSE IF m.heap[i].parent = h
            THEN [m.heap[i] EXCEPT !.rel = m.heap[i].rel + 1]
            ELSE m.heap[i]]]

\* LcPtr<T>: frees its pointer when dropped
LcPtr_drop(m, h) == Free(Logged(m, "free"), h)

\* DetachableLcPtr<T>: frees its pointer when dropped unless detached
DetachableLcPtr_new(h) == [ptr |-> h, detached |-> FALSE]
detach(d) == [d EXCEPT !.detached = TRUE]
DetachableLcPtr_drop(m, d) == IF d.detached THEN m ELSE Free(Logged(m, "free"), d.ptr)

Ok(key) == [tag |-> "Ok", err |-> "", key |-> key, buf |-> <<>>]
OkBuf(buf) == [tag |-> "Ok", err |-> "", key |-> NULL, buf |-> buf]
Err(e) == [tag |-> "Err", err |-> e, key |-> NULL, buf |-> <<>>]
Panic(e) == [tag |-> "Panic", err |-> e, key |-> NULL, buf |-> <<>>]
Ret(m, res) == [m |-> m, res |-> res]

\* ------------------------------------------------------------------------
\* Engine calls.  F is the set of engine calls that report failure.
\* ------------------------------------------------------------------------
EC_GROUP_new_by_curve_name(m, nid) ==
    LET m1 == Logged(m, "EC_GROUP_new_by_curve_name")
    IN  IF nid \notin Curves THEN [m |-> m1, ptr |-> NULL]
        ELSE Alloc(m1, [NewObj("EC_GROUP", "EC_GROUP_new_by_curve_name") EXCEPT !.nid = nid])

EC_GROUP_get_curve_name(m, g) == m.heap[g].nid

EC_KEY_new(m, F) ==
    LET m1 == Logged(m, "EC_KEY_new")
    IN  IF "EC_KEY_new" \in F THEN [m |-> m1, ptr |-> NULL]
        ELSE Alloc(m1, NewObj("EC_KEY", "EC_KEY_new"))

EC_KEY_set_group(m, k, g, F) ==
    LET m1 == Logged(m, "EC_KEY_set_group")
    IN  IF "EC_KEY_set_group" \in F THEN [m |-> m1, rc |-> 0]
        ELSE [m |-> SetObj(m1, k, [m1.heap[k] EXCEPT !.nid = m1.heap[g].nid]), rc |-> 1]

WorseOf(q1, q2) ==
    IF "bad" \in {q1, q2} THEN "bad" ELSE IF "std" \in {q1, q2} THEN "std" ELSE "fips"

EC_KEY_set_public_key(m, k, p, F) ==
    LET m1 == Logged(m, "EC_KEY_set_public_key")
    IN  IF "EC_KEY_set_public_key" \in F THEN [m |-> m1, rc |-> 0]
        ELSE [m |-> SetObj(m1, k, [m1.heap[k] EXCEPT !.hasPub = TRUE,
                                       !.q = WorseOf(m1.heap[k].q, m1.heap[p].q)]),
              rc |-> 1]

EC_KEY_set_private_key(m, k, b, F) ==
    LET m1 == Logged(m, "EC_KEY_set_private_key")
    IN  IF "EC_KEY_set_private_key" \in F THEN [m |-> m1, rc |-> 0]
        ELSE [m |-> SetObj(m1, k, [m1.heap[k] EXCEPT !.hasPriv = TRUE,
                                       !.bn = m1.heap[b].bn,
                                       !.q = WorseOf(m1.heap[k].q, m1.heap[b].q)]),
              rc |-> 1]

EC_POINT_new(m, g, F) ==
    LET m1 == Logged(m, "EC_POINT_new")
    IN  IF "EC_POINT_new" \in F THEN [m |-> m1, ptr |-> NULL]
        ELSE Alloc(m1, [NewObj("EC_POINT", "EC_POINT_new") EXCEPT !.nid = m1.heap[g].nid])

\* point := scalar * generator
EC_POINT_mul(m, g, p, b, F) ==
    LET m1 == Logged(m, "EC_POINT_mul")
    IN  IF "EC_POINT_mul" \in F THEN [m |-> m1, rc |-> 0]
        ELSE [m |-> SetObj(m1, p, [m1.heap[p] EXCEPT !.q = m1.heap[b].q]), rc |-> 1]

\* raw is the engine's verdict on the octet string for this group
EC_POINT_oct2point(m, g, p, raw) ==
    LET m1 == Logged(m, "EC_POINT_oct2point")
    IN  IF ~raw.ok THEN [m |-> m1, rc |-> 0]
        ELSE [m |-> SetObj(m1, p, [m1.heap[p] EXCEPT !.q = raw.q, !.src = "EC_POINT_oct2point"]),
              rc |-> 1]

EVP_PKEY_new(m, F) ==
    LET m1 == Logged(m, "EVP_PKEY_new")
    IN  IF "EVP_PKEY_new" \in F THEN [m |-> m1, ptr |-> NULL]
        ELSE Alloc(m1, NewObj("EVP_PKEY", "EVP_PKEY_new"))

\* on success the EVP_PKEY owns the EC_KEY
EVP_PKEY_assign_EC_KEY(m, pkey, k, F) ==
    LET m1 == Logged(m, "EVP_PKEY_assign_EC_KEY")
    IN  IF "EVP_PKEY_assign_EC_KEY" \in F THEN [m |-> m1, rc |-> 0]
        ELSE [m |-> SetObj(SetObj(m1, pkey, [m1.heap[pkey] EXCEPT !.ec = k]),
                           k, [m1.heap[k] EXCEPT !.parent = pkey]),
              rc |-> 1]

EVP_PKEY_get0_EC_KEY(m, pkey) == m.heap[pkey].ec

\* the group is embedded in the key: the key's handle stands for it
EC_KEY_get0_group(m, k) == IF m.heap[k].nid = "none" THEN NULL ELSE k

EC_KEY_get0_private_key(m, k) == IF m.heap[k].hasPriv THEN k ELSE NULL

EC_KEY_check_key(m, k) ==
    [m |-> Logged(m, "EC_KEY_check_key"),
     rc |-> IF m.heap[k].hasPub /\ m.heap[k].q \in {"std", "fips"} THEN 1 ELSE 0]

EC_KEY_check_fips(m, k) ==
    [m |-> Logged(m, "EC_KEY_check_fips"),
     rc |-> IF m.heap[k].hasPub /\ m.heap[k].q = "fips" THEN 1 ELSE 0]

\* a parser's product: an EVP_PKEY owning its EC_KEY (or owning none when the
\* container holds a key of another type)
ParsedKey(m, parsed, src) ==
    LET a == Alloc(m, [NewObj("EVP_PKEY", src) EXCEPT !.ec =
                          IF parsed.type = "EC" THEN Len(m.heap) + 2 ELSE NULL])
    IN  IF parsed.type # "EC" THEN a
        ELSE [m |-> Alloc(a.m, [NewObj("EC_KEY", src) EXCEPT
                                   !.parent = a.ptr, !.nid = parsed.nid, !.q = parsed.q,
                                   !.hasPub = TRUE, !.hasPriv = parsed.priv]).m,
              ptr |-> a.ptr]

\* `d2i_PrivateKey` -> ... -> `EC_KEY_parse_private_key` -> `EC_KEY_check_key`
d2i_PrivateKey(m, parsed) ==
    LET m1 == Logged(m, "d2i_PrivateKey")
    IN  IF ~parsed.ok THEN [m |-> m1, ptr |-> NULL]
        ELSE ParsedKey(m1, parsed, "d2i_PrivateKey")

EVP_parse_public_key(m, parsed) ==
    LET m1 == Logged(m, "EVP_parse_public_key")
    IN  IF ~parsed.ok THEN [m |-> m1, ptr |-> NULL]
        ELSE ParsedKey(m1, parsed, "EVP_parse_public_key")

EVP_PKEY_CTX_new_id(m, F) ==
    LET m1 == Logged(m, "EVP_PKEY_CTX_new_id")
    IN  IF "EVP_PKEY_CTX_new_id" \in F THEN [m |-> m1, ptr |-> NULL]
        ELSE Alloc(m1, NewObj("EVP_PKEY_CTX", "EVP_PKEY_CTX_new_id"))

EVP_PKEY_keygen_init(m, ctx, F) ==
    [m |-> Logged(m, "EVP_PKEY_keygen_init"),
     rc |-> IF "EVP_PKEY_keygen_init" \in F THEN 0 ELSE 1]

EVP_PKEY_CTX_set_ec_paramgen_curve_nid(m, ctx, nid, F) ==
    LET m1 == Logged(m, "EVP_PKEY_CTX_set_ec_paramgen_curve_nid")
    IN  IF nid \notin Curves \/ "EVP_PKEY_CTX_set_ec_paramgen_curve_nid" \in F
        THEN [m |-> m1, rc |-> 0]
        ELSE [m |-> SetObj(m1, ctx, [m1.heap[ctx] EXCEPT !.nid = nid]), rc |-> 1]

\* on failure the engine leaves the out-pointer null
EVP_PKEY_keygen(m, ctx, genq, F) ==
    LET m1 == Logged(m, "EVP_PKEY_keygen")
    IN  IF "EVP_PKEY_keygen" \in F THEN [m |-> m1, ptr |-> NULL, rc |-> 0]
        ELSE LET a == ParsedKey(m1, [ok |-> TRUE, type |-> "EC", nid |-> m1.heap[ctx].nid,
                                     q |-> genq, priv |-> TRUE], "EVP_PKEY_keygen")
             IN  [m |-> a.m, ptr |-> a.ptr, rc |-> 1]

\* ------------------------------------------------------------------------
\* ec.rs: KeyValidator
\* ------------------------------------------------------------------------
verify_ec_key_nid(m, ec_key, expected_curve_nid) ==
    LET ec_group == EC_KEY_get0_group(m, ec_key)
    IN  IF ec_group = NULL THEN Ret(m, Err("unexpected_error"))
        ELSE LET key_nid == EC_GROUP_get_curve_name(m, ec_group)
                 m1 == Logged(m, "EC_GROUP_get_curve_name")
             IN  IF key_nid # expected_curve_nid
                 THEN Ret(m1, Err("wrong_algorithm"))
                 ELSE Ret(SetObj(m1, ec_key, [m1.heap[ec_key] EXCEPT !.nidck = TRUE]),
                          Ok(NULL))

\* cfg(not(feature = "fips")) only
verify_evp_key_nid(m, evp_pkey, expected_curve_nid) ==
    LET ec_key == EVP_PKEY_get0_EC_KEY(m, evp_pkey)
    IN  IF ec_key = NULL THEN Ret(m, Err("unexpected_error"))
        ELSE verify_ec_key_nid(m, ec_key, expected_curve_nid)

\* faulty variant: the structural consistency check is left out
validate_evp_key_nid_only(m, evp_pkey, expected_curve_nid) ==
    LET ec_key == EVP_PKEY_get0_EC_KEY(m, evp_pkey)
    IN  IF ec_key = NULL THEN Ret(m, Err("unexpected_error"))
        ELSE verify_ec_key_nid(m, ec_key, expected_curve_nid)

\* faulty variant: the structural consistency check is made before the curve-identity check
validate_evp_key_check_first(m, evp_pkey, expected_curve_nid) ==
    LET ec_key == EVP_PKEY_get0_EC_KEY(m, evp_pkey)
    IN  IF ec_key = NULL THEN Ret(m, Err("unexpected_error"))
        ELSE LET c == IF fips THEN EC_KEY_check_fips(m, ec_key)
                              ELSE EC_KEY_check_key(m, ec_key)
             IN  IF c.rc # 1 THEN Ret(c.m, Err("inconsistent_components"))
                 ELSE LET v == verify_ec_key_nid(c.m, ec_key, expected_curve_nid)
                      IN  IF v.res.tag # "Ok" THEN v
                          ELSE Ret(SetObj(v.m, ec_key,
                                          [v.m.heap[ec_key] EXCEPT !.keyck = TRUE]),
                                   Ok(NULL))

validate_evp_key(m, evp_pkey, expected_curve_nid) ==
    LET ec_key == EVP_PKEY_get0_EC_KEY(m, evp_pkey)
    IN  IF ec_key = NULL THEN Ret(m, Err("unexpected_error"))
        ELSE LET v == verify_ec_key_nid(m, ec_key, expected_curve_nid)
             IN  IF v.res.tag # "Ok" THEN v
                 ELSE LET c == IF fips THEN EC_KEY_check_fips(v.m, ec_key)
                                      ELSE EC_KEY_check_key(v.m, ec_key)
                      IN  IF c.rc # 1 THEN Ret(c.m, Err("inconsistent_components"))
                          ELSE Ret(SetObj(c.m, ec_key,
                                          [c.m.heap[ec_key] EXCEPT !.keyck = TRUE]),
                                   Ok(NULL))

\* ------------------------------------------------------------------------
\* ec.rs: private-key import
\* ------------------------------------------------------------------------
\* faulty variant: the length is converted only after the parser has run
unmarshal_der_to_private_key_parse_first(m, len, parsed, nid) ==
    LET a == d2i_PrivateKey(m, parsed)
    IN  IF len > C_LONG_MAX
        THEN Ret(IF a.ptr = NULL THEN a.m ELSE LcPtr_drop(a.m, a.ptr), Err("too_large"))
        ELSE IF a.ptr = NULL THEN Ret(a.m, Err("unexpected_error"))
             ELSE LET evp_pkey == a.ptr
                      v == IF fips THEN validate_evp_key(a.m, evp_pkey, nid)
                                   ELSE verify_evp_key_nid(a.m, evp_pkey, nid)
                  IN  IF v.res.tag # "Ok" THEN Ret(LcPtr_drop(v.m, evp_pkey), v.res)
                      ELSE Ret(v.m, Ok(evp_pkey))

unmarshal_der_to_private_key(m, len, parsed, nid) ==
    IF len > C_LONG_MAX THEN Ret(m, Err("too_large"))
    ELSE LET a == d2i_PrivateKey(m, parsed)
         IN  IF a.ptr = NULL THEN Ret(a.m, Err("unexpected_error"))
             ELSE LET evp_pkey == a.ptr
                      v == IF fips THEN validate_evp_key(a.m, evp_pkey, nid)
                                   ELSE verify_evp_key_nid(a.m, evp_pkey, nid)
                  IN  IF v.res.tag # "Ok" THEN Ret(LcPtr_drop(v.m, evp_pkey), v.res)
                      ELSE Ret(v.m, Ok(evp_pkey))

\* ------------------------------------------------------------------------
\* ec.rs: key assembly
\* ------------------------------------------------------------------------
\* faulty variant: the EC_KEY wrapper is not detached after the EVP_PKEY took the key
evp_pkey_from_public_point_no_detach(m, ec_group, public_ec_point, F) ==
    LET nid == EC_GROUP_get_curve_name(m, ec_group)
        a1 == EC_KEY_new(m, F)
    IN  IF a1.ptr = NULL THEN Ret(a1.m, Err("Unspecified")) ELSE
    LET ec_key == DetachableLcPtr_new(a1.ptr)
        a2 == EC_KEY_set_group(a1.m, ec_key.ptr, ec_group, F)
    IN  IF a2.rc # 1 THEN Ret(DetachableLcPtr_drop(a2.m, ec_key), Err("Unspecified")) ELSE
    LET a3 == EC_KEY_set_public_key(a2.m, ec_key.ptr, public_ec_point, F)
    IN  IF a3.rc # 1 THEN Ret(DetachableLcPtr_drop(a3.m, ec_key), Err("Unspecified")) ELSE
    LET a4 == EVP_PKEY_new(a3.m, F)
    IN  IF a4.ptr = NULL THEN Ret(DetachableLcPtr_drop(a4.m, ec_key), Err("Unspecified")) ELSE
    LET pkey == a4.ptr
        a5 == EVP_PKEY_assign_EC_KEY(a4.m, pkey, ec_key.ptr, F)
    IN  IF a5.rc # 1
        THEN Ret(DetachableLcPtr_drop(LcPtr_drop(a5.m, pkey), ec_key), Err("Unspecified")) ELSE
    LET ec_key_d == ec_key
        v == validate_evp_key(a5.m, pkey, nid)
    IN  IF v.res.tag # "Ok"
        THEN Ret(DetachableLcPtr_drop(LcPtr_drop(v.m, pkey), ec_key_d), Err("Unspecified"))
        ELSE Ret(DetachableLcPtr_drop(v.m, ec_key_d), Ok(pkey))

\* faulty variant: the assembled key is returned without validation
evp_pkey_from_public_point_no_validate(m, ec_group, public_ec_point, F) ==
    LET nid == EC_GROUP_get_curve_name(m, ec_group)
        a1 == EC_KEY_new(m, F)
    IN  IF a1.ptr = NULL THEN Ret(a1.m, Err("Unspecified")) ELSE
    LET ec_key == DetachableLcPtr_new(a1.ptr)
        a2 == EC_KEY_set_group(a1.m, ec_key.ptr, ec_group, F)
    IN  IF a2.rc # 1 THEN Ret(DetachableLcPtr_drop(a2.m, ec_key), Err("Unspecified")) ELSE
    LET a3 == EC_KEY_set_public_key(a2.m, ec_key.ptr, public_ec_point, F)
    IN  IF a3.rc # 1 THEN Ret(DetachableLcPtr_drop(a3.m, ec_key), Err("Unspecified")) ELSE
    LET a4 == EVP_PKEY_new(a3.m, F)
    IN  IF a4.ptr = NULL THEN Ret(DetachableLcPtr_drop(a4.m, ec_key), Err("Unspecified")) ELSE
    LET pkey == a4.ptr
        a5 == EVP_PKEY_assign_EC_KEY(a4.m, pkey, ec_key.ptr, F)
    IN  IF a5.rc # 1
        THEN Ret(DetachableLcPtr_drop(LcPtr_drop(a5.m, pkey), ec_key), Err("Unspecified")) ELSE
    LET ec_key_d == detach(ec_key)
        v == Ret(a5.m, Ok(NULL))
    IN  IF v.res.tag # "Ok"
        THEN Ret(DetachableLcPtr_drop(LcPtr_drop(v.m, pkey), ec_key_d), Err("Unspecified"))
        ELSE Ret(DetachableLcPtr_drop(v.m, ec_key_d), Ok(pkey))

evp_pkey_from_public_point(m, ec_group, public_ec_point, F) ==
    LET nid == EC_GROUP_get_curve_name(m, ec_group)
        a1 == EC_KEY_new(m, F)
    IN  IF a1.ptr = NULL THEN Ret(a1.m, Err("Unspecified")) ELSE
    LET ec_key == DetachableLcPtr_new(a1.ptr)
        a2 == EC_KEY_set_group(a1.m, ec_key.ptr, ec_group, F)
    IN  IF a2.rc # 1 THEN Ret(DetachableLcPtr_drop(a2.m, ec_key), Err("Unspecified")) ELSE
    LET a3 == EC_KEY_set_public_key(a2.m, ec_key.ptr, public_ec_point, F)
    IN  IF a3.rc # 1 THEN Ret(DetachableLcPtr_drop(a3.m, ec_key), Err("Unspecified")) ELSE
    LET a4 == EVP_PKEY_new(a3.m, F)
    IN  IF a4.ptr = NULL THEN Ret(DetachableLcPtr_drop(a4.m, ec_key), Err("Unspecified")) ELSE
    LET pkey == a4.ptr
        a5 == EVP_PKEY_assign_EC_KEY(a4.m, pkey, ec_key.ptr, F)
    IN  IF a5.rc # 1
        THEN Ret(DetachableLcPtr_drop(LcPtr_drop(a5.m, pkey), ec_key), Err("Unspecified")) ELSE
    LET ec_key_d == detach(ec_key)
        v == validate_evp_key(a5.m, pkey, nid)
    IN  IF v.res.tag # "Ok"
        THEN Ret(DetachableLcPtr_drop(LcPtr_drop(v.m, pkey), ec_key_d), Err("Unspecified"))
        ELSE Ret(DetachableLcPtr_drop(v.m, ec_key_d), Ok(pkey))

evp_pkey_from_private(m, ec_group, private_big_num, F) ==
    LET a1 == EC_KEY_new(m, F)
    IN  IF a1.ptr = NULL THEN Ret(a1.m, Err("Unspecified")) ELSE
    LET ec_key == DetachableLcPtr_new(a1.ptr)
        a2 == EC_KEY_set_group(a1.m, ec_key.ptr, ec_group, F)
    IN  IF a2.rc # 1 THEN Ret(DetachableLcPtr_drop(a2.m, ec_key), Err("Unspecified")) ELSE
    LET a3 == EC_KEY_set_private_key(a2.m, ec_key.ptr, private_big_num, F)
    IN  IF a3.rc # 1 THEN Ret(DetachableLcPtr_drop(a3.m, ec_key), Err("Unspecified")) ELSE
    LET a4 == EC_POINT_new(a3.m, ec_group, F)
    IN  IF a4.ptr = NULL THEN Ret(DetachableLcPtr_drop(a4.m, ec_key), Err("Unspecified")) ELSE
    LET pub_key == a4.ptr
        a5 == EC_POINT_mul(a4.m, ec_group, pub_key, private_big_num, F)
    IN  IF a5.rc # 1
        THEN Ret(DetachableLcPtr_drop(LcPtr_drop(a5.m, pub_key), ec_key), Err("Unspecified")) ELSE
    LET a6 == EC_KEY_set_public_key(a5.m, ec_key.ptr, pub_key, F)
    IN  IF a6.rc # 1
        THEN Ret(DetachableLcPtr_drop(LcPtr_drop(a6.m, pub_key), ec_key), Err("Unspecified")) ELSE
    LET expected_curve_nid == EC_GROUP_get_curve_name(a6.m, ec_group)
        a7 == EVP_PKEY_new(a6.m, F)
    IN  IF a7.ptr = NULL
        THEN Ret(DetachableLcPtr_drop(LcPtr_drop(a7.m, pub_key), ec_key), Err("Unspecified")) ELSE
    LET pkey == a7.ptr
        a8 == EVP_PKEY_assign_EC_KEY(a7.m, pkey, ec_key.ptr, F)
    IN  IF a8.rc # 1
        THEN Ret(DetachableLcPtr_drop(LcPtr_drop(LcPtr_drop(a8.m, pkey), pub_key), ec_key),
                 Err("Unspecified")) ELSE
    LET ec_key_d == detach(ec_key)
        v == validate_evp_key(a8.m, pkey, expected_curve_nid)
    IN  IF v.res.tag # "Ok"
        THEN Ret(DetachableLcPtr_drop(LcPtr_drop(LcPtr_drop(v.m, pkey), pub_key), ec_key_d),
                 Err("Unspecified"))
        ELSE Ret(DetachableLcPtr_drop(LcPtr_drop(v.m, pub_key), ec_key_d), Ok(pkey))

evp_key_generate(m, nid, genq, F) ==
    LET a1 == EVP_PKEY_CTX_new_id(m, F)
    IN  IF a1.ptr = NULL THEN Ret(a1.m, Err("Unspecified")) ELSE
    LET pkey_ctx == a1.ptr
        a2 == EVP_PKEY_keygen_init(a1.m, pkey_ctx, F)
    IN  IF a2.rc # 1 THEN Ret(LcPtr_drop(a2.m, pkey_ctx), Err("Unspecified")) ELSE
    LET a3 == EVP_PKEY_CTX_set_ec_paramgen_curve_nid(a2.m, pkey_ctx, nid, F)
    IN  IF a3.rc # 1 THEN Ret(LcPtr_drop(a3.m, pkey_ctx), Err("Unspecified")) ELSE
    LET a4 == EVP_PKEY_keygen(a3.m, pkey_ctx, genq, F)
    IN  IF a4.rc # 1 THEN Ret(LcPtr_drop(a4.m, pkey_ctx), Err("Unspecified")) ELSE
        IF a4.ptr = NULL THEN Ret(LcPtr_drop(a4.m, pkey_ctx), Err("Unspecified"))
        ELSE Ret(LcPtr_drop(a4.m, pkey_ctx), Ok(a4.ptr))

\* public_ec_point = NULL stands for None
evp_key_from_public_private(m, ec_group, public_ec_point, private_bignum, F) ==
    LET a1 == EC_KEY_new(m, F)
    IN  IF a1.ptr = NULL THEN Ret(a1.m, Err("unexpected_error")) ELSE
    LET ec_key == DetachableLcPtr_new(a1.ptr)
        a2 == EC_KEY_set_group(a1.m, ec_key.ptr, ec_group, F)
    IN  IF a2.rc # 1 THEN Ret(DetachableLcPtr_drop(a2.m, ec_key), Err("unexpected_error")) ELSE
    LET a3 == IF public_ec_point # NULL
              THEN EC_KEY_set_public_key(a2.m, ec_key.ptr, public_ec_point, F)
              ELSE [m |-> a2.m, rc |-> 1]
    IN  IF a3.rc # 1 THEN Ret(DetachableLcPtr_drop(a3.m, ec_key), Err("unexpected_error")) ELSE
    LET a4 == EC_KEY_set_private_key(a3.m, ec_key.ptr, private_bignum, F)
    IN  IF a4.rc # 1 THEN Ret(DetachableLcPtr_drop(a4.m, ec_key), Err("unexpected_error")) ELSE
    LET a5 == EVP_PKEY_new(a4.m, F)
    IN  IF a5.ptr = NULL THEN Ret(DetachableLcPtr_drop(a5.m, ec_key), Err("unexpected_error")) ELSE
    LET evp_pkey == a5.ptr
        a6 == EVP_PKEY_assign_EC_KEY(a5.m, evp_pkey, ec_key.ptr, F)
    IN  IF a6.rc # 1
        THEN Ret(DetachableLcPtr_drop(LcPtr_drop(a6.m, evp_pkey), ec_key),
                 Err("unexpected_error")) ELSE
    LET ec_key_d == detach(ec_key)
        nid == EC_GROUP_get_curve_name(a6.m, ec_group)
        v == validate_evp_key(a6.m, evp_pkey, nid)
    IN  IF v.res.tag # "Ok"
        THEN Ret(DetachableLcPtr_drop(LcPtr_drop(v.m, evp_pkey), ec_key_d), v.res)
        ELSE Ret(DetachableLcPtr_drop(v.m, ec_key_d), Ok(evp_pkey))

\* ------------------------------------------------------------------------
\* ec.rs: public-key decode
\* ------------------------------------------------------------------------
ec_group_from_nid(m, nid) == EC_GROUP_new_by_curve_name(m, nid)

ec_point_from_bytes(m, ec_group, raw, F) ==
    LET a1 == EC_POINT_new(m, ec_group, F)
    IN  IF a1.ptr = NULL THEN Ret(a1.m, Err("Unspecified")) ELSE
    LET ec_point == a1.ptr
        a2 == EC_POINT_oct2point(a1.m, ec_group, ec_point, raw)
    IN  IF a2.rc # 1 THEN Ret(LcPtr_drop(a2.m, ec_point), Err("Unspecified"))
        ELSE Ret(a2.m, Ok(ec_point))

try_parse_subject_public_key_info_bytes(m, spki) ==
    LET a == EVP_parse_public_key(Logged(m, "CBS_init"), spki)
    IN  IF a.ptr = NULL THEN Ret(a.m, Err("Unspecified")) ELSE Ret(a.m, Ok(a.ptr))

try_parse_public_key_raw_bytes(m, raw, expected_curve_nid, F) ==
    LET a1 == ec_group_from_nid(m, expected_curve_nid)
    IN  IF a1.ptr = NULL THEN Ret(a1.m, Err("Unspecified")) ELSE
    LET ec_group == a1.ptr
        a2 == ec_point_from_bytes(a1.m, ec_group, raw, F)
    IN  IF a2.res.tag # "Ok" THEN Ret(LcPtr_drop(a2.m, ec_group), a2.res) ELSE
    LET pub_key_point == a2.res.key
        a3 == evp_pkey_from_public_point(a2.m, ec_group, pub_key_point, F)
    IN  Ret(LcPtr_drop(LcPtr_drop(a3.m, pub_key_point), ec_group), a3.res)

\* the receiver of `.or`: container parse, and_then validation
primary_stage(m, spki, expected_curve_nid) ==
    LET p == try_parse_subject_public_key_info_bytes(m, spki)
    IN  IF p.res.tag # "Ok" THEN p ELSE
    LET key == p.res.key
        v == validate_evp_key(p.m, key, expected_curve_nid)
    IN  IF v.res.tag = "Ok" THEN Ret(v.m, Ok(key))
        ELSE Ret(LcPtr_drop(v.m, key), Err("Unspecified"))

\* faulty variant: the receiver's result is returned whatever the argument gave
try_parse_public_key_bytes_no_fallback(m, spki, raw, expected_curve_nid, F) ==
    LET primary == primary_stage(m, spki, expected_curve_nid)
        fallback == try_parse_public_key_raw_bytes(primary.m, raw, expected_curve_nid, F)
    IN  Ret(IF fallback.res.tag = "Ok" THEN LcPtr_drop(fallback.m, fallback.res.key)
                                       ELSE fallback.m,
            primary.res)

\* `.or(arg)`: Rust evaluates the receiver, then the argument, then calls `or`,
\* which returns the receiver when it is Ok (dropping the argument)
try_parse_public_key_bytes(m, spki, raw, expected_curve_nid, F) ==
    LET primary == primary_stage(m, spki, expected_curve_nid)
        fallback == try_parse_public_key_raw_bytes(primary.m, raw, expected_curve_nid, F)
    IN  IF primary.res.tag = "Ok"
        THEN Ret(IF fallback.res.tag = "Ok" THEN LcPtr_drop(fallback.m, fallback.res.key)
                                            ELSE fallback.m,
                 primary.res)
        ELSE fallback

\* ------------------------------------------------------------------------
\* BIGNUM: little-endian digits (one byte each), possibly with zero digits
\* above the most significant one
\* ------------------------------------------------------------------------
Zeros(k) == [i \in 1..k |-> 0]

BN_num_bytes(bn) ==
    LET nz == {i \in DOMAIN bn : bn[i] # 0}
    IN  IF nz = {} THEN 0 ELSE CHOOSE i \in nz : \A j \in nz : j <= i

\* ConstPointer<BIGNUM>::to_be_bytes: the minimal big-endian encoding
to_be_bytes(bn) ==
    LET k == BN_num_bytes(bn) IN [i \in 1..k |-> bn[k + 1 - i]]

\* writes bn big-endian into len bytes, left-padded with zeros; 0 if it does not fit
BN_bn2bin_padded(len, bn) ==
    LET k == BN_num_bytes(bn)
    IN  IF k > len THEN [rc |-> 0, out |-> Zeros(len)]
        ELSE [rc |-> 1, out |-> Zeros(len - k) \o to_be_bytes(bn)]

\* AlgorithmID::private_key_size: the curve's scalar byte length
CurveBits(c) == CASE c = "P-256" -> 256 [] c = "P-384" -> 384 [] c = "P-521" -> ELEM_MAX_BITS
private_key_size(c) == (CurveBits(c) + 7) \div 8

\* ------------------------------------------------------------------------
\* ec.rs: private-scalar export
\* ------------------------------------------------------------------------
\* faulty variant: the buffer is sized by the scalar's natural length
marshal_private_key_to_buffer_natural(m, private_size, evp_pkey) ==
    LET ec_key == EVP_PKEY_get0_EC_KEY(m, evp_pkey)
    IN  IF ec_key = NULL THEN Ret(m, Err("Unspecified")) ELSE
    LET private_bn == EC_KEY_get0_private_key(m, ec_key)
    IN  IF private_bn = NULL THEN Ret(m, Err("Unspecified")) ELSE
    LET size == BN_num_bytes(m.heap[private_bn].bn)
        m1 == Logged(m, "BN_num_bytes")
    IN  IF debug /\ ~(size <= private_size)
        THEN Ret(m1, Panic("debug_assert!(size <= private_size)")) ELSE
    LET c == BN_bn2bin_padded(size, m1.heap[private_bn].bn)
        m2 == Logged(m1, "BN_bn2bin_padded")
    IN  IF c.rc # 1 THEN Ret(m2, Err("Unspecified"))
        ELSE Ret(m2, OkBuf(c.out))

marshal_private_key_to_buffer(m, private_size, evp_pkey) ==
    LET ec_key == EVP_PKEY_get0_EC_KEY(m, evp_pkey)
    IN  IF ec_key = NULL THEN Ret(m, Err("Unspecified")) ELSE
    LET private_bn == EC_KEY_get0_private_key(m, ec_key)
    IN  IF private_bn = NULL THEN Ret(m, Err("Unspecified")) ELSE
    LET size == BN_num_bytes(m.heap[private_bn].bn)
        m1 == Logged(m, "BN_num_bytes")
    IN  IF debug /\ ~(size <= private_size)
        THEN Ret(m1, Panic("debug_assert!(size <= private_size)")) ELSE
    LET c == BN_bn2bin_padded(private_size, m1.heap[private_bn].bn)
        m2 == Logged(m1, "BN_bn2bin_padded")
    IN  IF c.rc # 1 THEN Ret(m2, Err("Unspecified"))
        ELSE Ret(m2, OkBuf(c.out))

\* ------------------------------------------------------------------------
\* ec.rs: signature re-encoding
\* ------------------------------------------------------------------------
\* usize subtraction: panics on overflow when overflow checks are on, wraps otherwise
usize_sub(a, b) ==
    IF a >= b THEN [panic |-> FALSE, v |-> a - b]
    ELSE IF debug THEN [panic |-> TRUE, v |-> 0]
    ELSE [panic |-> FALSE, v |-> 2^USIZE_BITS + a - b]

\* slice[start..end].copy_from_slice(src); panics when the range is not in the
\* slice or its length differs from src's
copy_into(slice, start, end, src) ==
    IF start > end \/ end > Len(slice) \/ end - start # Len(src)
    THEN [panic |-> TRUE, slice |-> slice]
    ELSE [panic |-> FALSE,
          slice |-> [i \in DOMAIN slice |->
                        IF start < i /\ i <= end THEN src[i - start] ELSE slice[i]]]

\* Signature::MAX_LEN and Signature::new: a zeroed buffer, filled by the closure,
\* of which the first `len` bytes are the signature
Signature_MAX_LEN == 1 + 2 + 2 * (3 + SCALAR_MAX_BYTES)

Signature_new(filled) ==
    IF filled.panic \/ filled.len > Signature_MAX_LEN THEN Panic("panic")
    ELSE OkBuf(SubSeq(filled.slice, 1, filled.len))

ECDSA_SIG_from_bytes(m, sig) ==
    LET m1 == Logged(m, "ECDSA_SIG_from_bytes")
    IN  IF ~sig.ok THEN [m |-> m1, ptr |-> NULL]
        ELSE Alloc(m1, NewObj("ECDSA_SIG", "ECDSA_SIG_from_bytes"))

\* faulty variant: r and s are left-justified in their halves
ecdsa_asn1_fill_left(slice, expected_number_size, r_buffer, s_buffer) ==
    LET c1 == copy_into(slice, 0, Len(r_buffer), r_buffer)
    IN  IF c1.panic THEN [panic |-> TRUE, slice |-> slice, len |-> 0] ELSE
    LET c2 == copy_into(c1.slice, expected_number_size,
                        expected_number_size + Len(s_buffer), s_buffer)
    IN  IF c2.panic THEN [panic |-> TRUE, slice |-> slice, len |-> 0]
        ELSE [panic |-> FALSE, slice |-> c2.slice, len |-> 2 * expected_number_size]

\* the closure passed to Signature::new
ecdsa_asn1_fill(slice, expected_number_size, r_buffer, s_buffer) ==
    LET r_start == usize_sub(expected_number_size, Len(r_buffer))
        r_end == expected_number_size
        s_start == usize_sub(2 * expected_number_size, Len(s_buffer))
        s_end == 2 * expected_number_size
    IN  IF r_start.panic \/ s_start.panic THEN [panic |-> TRUE, slice |-> slice, len |-> 0] ELSE
    LET c1 == copy_into(slice, r_start.v, r_end, r_buffer)
    IN  IF c1.panic THEN [panic |-> TRUE, slice |-> slice, len |-> 0] ELSE
    LET c2 == copy_into(c1.slice, s_start.v, s_end, s_buffer)
    IN  IF c2.panic THEN [panic |-> TRUE, slice |-> slice, len |-> 0]
        ELSE [panic |-> FALSE, slice |-> c2.slice, len |-> 2 * expected_number_size]

ecdsa_asn1_to_fixed(m, expected_number_size, sig) ==
    LET a == ECDSA_SIG_from_bytes(m, sig)
    IN  IF a.ptr = NULL THEN Ret(a.m, Err("Unspecified")) ELSE
    LET ecdsa_sig == a.ptr
        r_buffer == to_be_bytes(sig.r)
        s_buffer == to_be_bytes(sig.s)
    IN  Ret(LcPtr_drop(a.m, ecdsa_sig),
            Signature_new(ecdsa_asn1_fill(Zeros(Signature_MAX_LEN), expected_number_size,
                                          r_buffer, s_buffer)))

\* ------------------------------------------------------------------------
\* Inputs
\* ------------------------------------------------------------------------
NoKey == [ok |-> FALSE, type |-> "none", nid |-> "none", q |-> "bad", priv |-> FALSE]
EcParse(c, q, priv) == [ok |-> TRUE, type |-> "EC", nid |-> c, q |-> q, priv |-> priv]
OtherParse == [ok |-> TRUE, type |-> "other", nid |-> "none", q |-> "bad", priv |-> FALSE]

\* the engine's private-key parser checks the key it parses (EC_KEY_check_key)
PrivParses == {NoKey} \cup {EcParse(c, q, TRUE) : c \in Curves, q \in {"std", "fips"}}
PubParses == {NoKey, OtherParse} \cup {EcParse(c, q, FALSE) : c \in Curves, q \in Quality}
RawParses == {[ok |-> FALSE, q |-> "bad"]} \cup {[ok |-> TRUE, q |-> q] : q \in Quality}

InputLens == {0, 1, C_LONG_MAX, C_LONG_MAX + 1, USIZE_MAX}

FaultSets(names) == {F \in SUBSET names : Cardinality(F) <= MaxFaults}

AssemblyFaults == {"EC_KEY_new", "EC_KEY_set_group", "EC_KEY_set_public_key",
                   "EVP_PKEY_new", "EVP_PKEY_assign_EC_KEY"}
DecodeFaults == AssemblyFaults \cup {"EC_POINT_new"}
DeriveFaults == AssemblyFaults \cup {"EC_KEY_set_private_key", "EC_POINT_new", "EC_POINT_mul"}
PairFaults == AssemblyFaults \cup {"EC_KEY_set_private_key"}
GenerateFaults == {"EVP_PKEY_CTX_new_id", "EVP_PKEY_keygen_init",
                   "EVP_PKEY_CTX_set_ec_paramgen_curve_nid", "EVP_PKEY_keygen"}

\* digit i of a sampled BIGNUM below its top digit
FillDigit(i) == (7 * i + 3) % 256

\* the top digit is never zero
TopDigit(len) == IF len % 2 = 1 THEN 255 ELSE 1

Bn(len, slack) ==
    [i \in 1..(len + slack) |->
        IF i > len THEN 0 ELSE IF i = len THEN TopDigit(len) ELSE FillDigit(i)]

BnLens(n) == {0, 1, 2} \cup ((n - 1)..(n + MaxExcess)) \cup ((2 * n - 1)..(2 * n + MaxExcess))

BnSamples(n) == {Bn(len, slack) : len \in BnLens(n), slack \in 0..MaxSlack}

\* what the engine's signature parser makes of the bytes
SigParses(n) ==
    {[ok |-> FALSE, r |-> <<>>, s |-> <<>>]}
        \cup {[ok |-> TRUE, r |-> r, s |-> s] : r \in BnSamples(n), s \in BnSamples(n)}

\* caller-owned handles passed by reference
ExtObj(kind, nid, q, bn) ==
    [NewObj(kind, "caller") EXCEPT !.ext = TRUE, !.nid = nid, !.q = q, !.bn = bn]

NoArgs ==
    [nid |-> "none", len |-> 0, parsed |-> NoKey, raw |-> [ok |-> FALSE, q |-> "bad"],
     F |-> {}, q |-> "bad", n |-> 0, sig |-> [ok |-> FALSE, r |-> <<>>, s |-> <<>>]]

NoResult == [tag |-> "none", err |-> "", key |-> NULL, buf |-> <<>>]

M0(objs) == [heap |-> objs, log |-> <<>>]

\* ------------------------------------------------------------------------
\* State machine: a caller calls one function of ec.rs and takes its result
\* ------------------------------------------------------------------------
Init ==
    /\ fips \in BOOLEAN
    /\ debug \in BOOLEAN
    /\ op = "idle"
    /\ args = NoArgs
    /\ heap = <<>>
    /\ log = <<>>
    /\ result = NoResult

Called(name, a, r) ==
    /\ op' = name
    /\ args' = a
    /\ heap' = r.m.heap
    /\ log' = r.m.log
    /\ result' = r.res
    /\ UNCHANGED <<fips, debug>>

Call_unmarshal_der_to_private_key ==
    /\ op = "idle"
    /\ \E len \in InputLens, nid \in Nids, parsed \in PrivParses :
           \* no container is empty
           /\ len = 0 => ~parsed.ok
           /\ Called("unmarshal_der_to_private_key",
                     [NoArgs EXCEPT !.len = len, !.nid = nid, !.parsed = parsed],
                     unmarshal_der_to_private_key(M0(<<>>), len, parsed, nid))

Call_try_parse_public_key_bytes ==
    /\ op = "idle"
    /\ \E nid \in Nids, spki \in PubParses, raw \in RawParses, F \in FaultSets(DecodeFaults) :
           \* a container starts with the SEQUENCE tag 0x30, a point encoding with
           \* 0x02, 0x03 or 0x04: no byte string is both
           /\ ~(spki.ok /\ raw.ok)
           /\ Called("try_parse_public_key_bytes",
                     [NoArgs EXCEPT !.nid = nid, !.parsed = spki, !.raw = raw, !.F = F],
                     try_parse_public_key_bytes(M0(<<>>), spki, raw, nid, F))

Call_evp_pkey_from_public_point ==
    /\ op = "idle"
    /\ \E c \in Curves, q \in Quality, F \in FaultSets(AssemblyFaults) :
           Called("evp_pkey_from_public_point",
                  [NoArgs EXCEPT !.nid = c, !.q = q, !.F = F],
                  evp_pkey_from_public_point(
                      M0(<<ExtObj("EC_GROUP", c, "fips", <<>>), ExtObj("EC_POINT", c, q, <<>>)>>),
                      1, 2, F))

Call_evp_pkey_from_private ==
    /\ op = "idle"
    /\ \E c \in Curves, q \in Quality, F \in FaultSets(DeriveFaults) :
           Called("evp_pkey_from_private",
                  [NoArgs EXCEPT !.nid = c, !.q = q, !.F = F],
                  evp_pkey_from_private(
                      M0(<<ExtObj("EC_GROUP", c, "fips", <<>>), ExtObj("BIGNUM", "none", q, <<1>>)>>),
                      1, 2, F))

Call_evp_key_generate ==
    /\ op = "idle"
    /\ \E nid \in Nids, genq \in {"std", "fips"}, F \in FaultSets(GenerateFaults) :
           Called("evp_key_generate",
                  [NoArgs EXCEPT !.nid = nid, !.q = genq, !.F = F],
                  evp_key_generate(M0(<<>>), nid, genq, F))

\* raw.ok tells whether a public point is supplied, raw.q how it fits the scalar
Call_evp_key_from_public_private ==
    /\ op = "idle"
    /\ \E c \in Curves, q \in Quality, pt \in RawParses, F \in FaultSets(PairFaults) :
           Called("evp_key_from_public_private",
                  [NoArgs EXCEPT !.nid = c, !.q = q, !.raw = pt, !.F = F],
                  evp_key_from_public_private(
                      M0(<<ExtObj("EC_GROUP", c, "fips", <<>>), ExtObj("BIGNUM", "none", q, <<1>>),
                           ExtObj("EC_POINT", c, pt.q, <<>>)>>),
                      1, IF pt.ok THEN 3 ELSE NULL, 2, F))

\* parsed tells what the key holds: an EC key or not, a private scalar or not
Call_marshal_private_key_to_buffer ==
    /\ op = "idle"
    /\ \E c \in Curves :
       \E key \in {OtherParse, EcParse(c, "fips", FALSE), EcParse(c, "fips", TRUE)} :
       \E bn \in BnSamples(private_key_size(c)) :
           Called("marshal_private_key_to_buffer",
                  [NoArgs EXCEPT !.nid = c, !.n = private_key_size(c), !.parsed = key,
                                 !.sig = [ok |-> FALSE, r |-> bn, s |-> <<>>]],
                  marshal_private_key_to_buffer(
                      M0(<<[ExtObj("EVP_PKEY", "none", "fips", <<>>) EXCEPT
                               !.ec = IF key.type = "EC" THEN 2 ELSE NULL],
                           [ExtObj("EC_KEY", c, key.q, bn) EXCEPT
                               !.parent = 1, !.hasPub = TRUE, !.hasPriv = key.priv]>>),
                      private_key_size(c), 1))

Call_ecdsa_asn1_to_fixed ==
    /\ op = "idle"
    /\ \E c \in Curves :
       \E sig \in SigParses(private_key_size(c)) :
           Called("ecdsa_asn1_to_fixed",
                  [NoArgs EXCEPT !.nid = c, !.n = private_key_size(c), !.sig = sig],
                  ecdsa_asn1_to_fixed(M0(<<>>), private_key_size(c), sig))

\* the caller takes the result; the next call starts afresh
Return ==
    /\ op # "idle"
    /\ op' = "idle"
    /\ args' = NoArgs
    /\ heap' = <<>>
    /\ log' = <<>>
    /\ result' = NoResult
    /\ UNCHANGED <<fips, debug>>

Next ==
    \/ Call_unmarshal_der_to_private_key
    \/ Call_try_parse_public_key_bytes
    \/ Call_evp_pkey_from_public_point
    \/ Call_evp_pkey_from_private
    \/ Call_evp_key_generate
    \/ Call_evp_key_from_public_private
    \/ Call_marshal_private_key_to_buffer
    \/ Call_ecdsa_asn1_to_fixed
    \/ Return

Spec == Init /\ [][Next]_vars

\* ------------------------------------------------------------------------
\* Properties
\* ------------------------------------------------------------------------
ConstructionOps ==
    {"unmarshal_der_to_private_key", "try_parse_public_key_bytes",
     "evp_pkey_from_public_point", "evp_pkey_from_private", "evp_key_generate",
     "evp_key_from_public_private"}

ReturnedKey == op \in ConstructionOps /\ result.tag = "Ok" /\ result.key # NULL

\* the EC_KEY of the returned key
ReturnedEc == heap[heap[result.key].ec]

\* the engine's structural check of this build accepts quality q
Passes(q) == IF fips THEN q = "fips" ELSE q \in {"std", "fips"}

\* digit j (1 = least significant) of a BIGNUM's value
Digit(bn, j) == IF j \in DOMAIN bn THEN bn[j] ELSE 0

\* buf is the big-endian encoding of bn's value in exactly n bytes
IsFixedWidth(buf, n, bn) ==
    /\ Len(buf) = n
    /\ \A i \in 1..n : buf[i] = Digit(bn, n + 1 - i)

StructuralCheckLogged == \E i \in DOMAIN log : log[i] \in {"EC_KEY_check_key", "EC_KEY_check_fips"}

\* C1 (as claimed): every key a construction path returns Ok has passed both
\* the curve-identity check and the structural consistency check inside ec.rs,
\* in every build.
C1_EveryReturnedKeyFullyValidated ==
    ReturnedKey => (ReturnedEc.nidck /\ ReturnedEc.keyck)

\* C1 (amended): keys assembled by evp_pkey_from_public_point,
\* evp_pkey_from_private and evp_key_from_public_private, and keys returned by
\* try_parse_public_key_bytes, have passed both checks of validate_evp_key; a key
\* returned by unmarshal_der_to_private_key has passed the curve-identity check
\* in every build and the structural check inside ec.rs exactly in the fips
\* build; a key returned by evp_key_generate has passed neither inside ec.rs.
C1_ValidationPerPath ==
    ReturnedKey =>
        /\ op \in {"try_parse_public_key_bytes", "evp_pkey_from_public_point",
                   "evp_pkey_from_private", "evp_key_from_public_private"}
              => (ReturnedEc.nidck /\ ReturnedEc.keyck)
        /\ op = "unmarshal_der_to_private_key"
              => (ReturnedEc.nidck /\ (ReturnedEc.keyck <=> fips))
        /\ op = "evp_key_generate"
              => (~ReturnedEc.nidck /\ ~ReturnedEc.keyck)

C1_Witness ==
    /\ ReturnedKey
    /\ op = "evp_key_from_public_private"
    /\ ReturnedEc.nidck /\ ReturnedEc.keyck /\ ReturnedEc.hasPriv

\* what the oracle says of the two stages of public-key decode
PrimaryStageFails ==
    \/ ~args.parsed.ok
    \/ args.parsed.type # "EC"
    \/ args.parsed.nid # args.nid
    \/ ~Passes(args.parsed.q)

RawStageFails ==
    \/ args.nid \notin Curves
    \/ ~args.raw.ok
    \/ args.F # {}
    \/ ~Passes(args.raw.q)

\* C2: public-key decode returns Err(Unspecified) if and only if both the
\* primary stage and the raw-point stage fail; when the primary stage succeeds
\* the returned key is the container-parsed key, and when only the raw-point
\* stage succeeds it is the key assembled from the raw point.
C2_DecodeFailsIffBothStagesFail ==
    op = "try_parse_public_key_bytes" =>
        /\ (result.tag = "Err") <=> (PrimaryStageFails /\ RawStageFails)
        /\ result.tag = "Err" => (result.err = "Unspecified" /\ result.key = NULL)
        /\ result.tag \in {"Ok", "Err"}
        /\ ~PrimaryStageFails =>
              (result.tag = "Ok" /\ heap[result.key].src = "EVP_parse_public_key")
        /\ (PrimaryStageFails /\ ~RawStageFails) =>
              (result.tag = "Ok" /\ heap[result.key].src = "EVP_PKEY_new")

C2_Witness ==
    /\ op = "try_parse_public_key_bytes"
    /\ PrimaryStageFails /\ ~RawStageFails
    /\ result.tag = "Ok" /\ heap[result.key].src = "EVP_PKEY_new"
    /\ heap[result.key].rel = 0

\* C3 (as claimed): tagged_to_fixed returns Err(Unspecified) whenever the tagged
\* signature fails to parse or the natural byte length of r or of s exceeds n.
C3_OversizeIsUnspecified ==
    (/\ op = "ecdsa_asn1_to_fixed"
     /\ \/ ~args.sig.ok
        \/ BN_num_bytes(args.sig.r) > args.n
        \/ BN_num_bytes(args.sig.s) > args.n)
        => (result.tag = "Err" /\ result.err = "Unspecified")

\* C4: for a parsed signature with len(r) <= n and len(s) <= n the result is
\* exactly 2n bytes: r big-endian right-justified in the first n bytes, s
\* big-endian right-justified in the last n bytes, zero everywhere else.
C4_FixedLayout ==
    (/\ op = "ecdsa_asn1_to_fixed"
     /\ args.sig.ok
     /\ BN_num_bytes(args.sig.r) <= args.n
     /\ BN_num_bytes(args.sig.s) <= args.n)
        => /\ result.tag = "Ok"
           /\ Len(result.buf) = 2 * args.n
           /\ IsFixedWidth(SubSeq(result.buf, 1, args.n), args.n, args.sig.r)
           /\ IsFixedWidth(SubSeq(result.buf, args.n + 1, 2 * args.n), args.n, args.sig.s)

C4_Witness ==
    /\ op = "ecdsa_asn1_to_fixed"
    /\ args.sig.ok
    /\ BN_num_bytes(args.sig.r) = 2
    /\ BN_num_bytes(args.sig.s) = args.n - 1
    /\ Len(args.sig.r) > 2
    /\ result.tag = "Ok"
    /\ result.buf[args.n] # 0 /\ result.buf[1] = 0 /\ result.buf[args.n + 1] = 0

\* C5: private-key import of a well-formed container on another curve than the
\* expected one fails with wrong_algorithm and returns no key, and the
\* structural consistency check is not reached, so that a key that is also
\* inconsistent is never reported as inconsistent_components.
C5_WrongCurveFirst ==
    (/\ op = "unmarshal_der_to_private_key"
     /\ args.len <= C_LONG_MAX
     /\ args.parsed.ok
     /\ args.parsed.nid # args.nid)
        => /\ result = Err("wrong_algorithm")
           /\ ~StructuralCheckLogged

C5_Witness ==
    /\ op = "unmarshal_der_to_private_key"
    /\ fips
    /\ args.parsed.ok /\ args.parsed.nid # args.nid /\ args.nid \in Curves
    /\ ~Passes(args.parsed.q)
    /\ result = Err("wrong_algorithm")

\* C6: when the input length does not fit the engine's length type the import
\* fails with too_large and the engine's private-key parser is not invoked.
C6_TooLargeBeforeParse ==
    (op = "unmarshal_der_to_private_key" /\ args.len > C_LONG_MAX)
        => /\ result = Err("too_large")
           /\ \A i \in DOMAIN log : log[i] # "d2i_PrivateKey"
           /\ heap = <<>>

C6_Witness ==
    /\ op = "unmarshal_der_to_private_key"
    /\ args.len = C_LONG_MAX + 1
    /\ args.parsed.ok /\ args.parsed.nid = args.nid
    /\ result = Err("too_large")

\* the handles the caller now owns: the returned key and what it owns
Kept(h) ==
    /\ result.tag = "Ok"
    /\ result.key # NULL
    /\ (h = result.key \/ heap[h].parent = result.key)

\* C7: when a construction function returns, on any exit path, every engine
\* handle acquired during the call has been released exactly once, except the
\* handle of a returned key (and the EC_KEY it owns), which has not been
\* released; handles of the caller are not released.  An EC_KEY that an EVP_PKEY
\* accepted is never released through its own wrapper, and one that no EVP_PKEY
\* accepted is released through its own wrapper exactly once.
C7_HandlesReleasedExactlyOnce ==
    op \in ConstructionOps =>
        \A h \in DOMAIN heap :
            /\ heap[h].rel = (IF heap[h].ext \/ Kept(h) THEN 0 ELSE 1)
            /\ (heap[h].kind = "EC_KEY" /\ ~heap[h].ext) =>
                  heap[h].direct = (IF heap[h].parent # NULL THEN 0 ELSE 1)

C7_Witness ==
    /\ op = "try_parse_public_key_bytes"
    /\ result.tag = "Err"
    /\ \E h \in DOMAIN heap :
          /\ heap[h].kind = "EC_KEY" /\ heap[h].src = "EC_KEY_new"
          /\ heap[h].parent # NULL /\ heap[h].rel = 1 /\ heap[h].direct = 0
    /\ \E h \in DOMAIN heap : heap[h].kind = "EC_POINT" /\ heap[h].rel = 1

\* C8: export_private on success returns exactly private_size bytes holding the
\* scalar big-endian, right-justified and left-padded with zeros; every error
\* is Unspecified and carries no buffer, and a scalar longer than private_size
\* gives that error in a build without debug assertions.
C8_ExportFixedWidth ==
    op = "marshal_private_key_to_buffer" =>
        /\ result.tag = "Ok" => IsFixedWidth(result.buf, args.n, args.sig.r)
        /\ result.tag = "Err" => (result.err = "Unspecified" /\ result.buf = <<>>)
        /\ (/\ ~debug
            /\ args.parsed.type = "EC" /\ args.parsed.priv
            /\ BN_num_bytes(args.sig.r) > args.n)
              => result = Err("Unspecified")
        /\ (/\ args.parsed.type = "EC" /\ args.parsed.priv
            /\ BN_num_bytes(args.sig.r) <= args.n)
              => result.tag = "Ok"

C8_Witness ==
    /\ op = "marshal_private_key_to_buffer"
    /\ result.tag = "Ok"
    /\ BN_num_bytes(args.sig.r) = args.n - 1
    /\ Len(args.sig.r) = args.n
    /\ result.buf[1] = 0 /\ result.buf[2] # 0

RawStageLogged ==
    \E i \in DOMAIN log :
        log[i] \in {"EC_GROUP_new_by_curve_name", "EC_POINT_new", "EC_POINT_oct2point",
                    "EC_KEY_new", "EVP_PKEY_new"}

\* C9 (as claimed): the raw-point fallback is attempted only if the primary
\* stage failed: when the container parse and its validation succeed, no group
\* lookup, point decode or key assembly is performed.
C9_FallbackOnlyAfterPrimaryFailure ==
    (op = "try_parse_public_key_bytes" /\ ~PrimaryStageFails) => ~RawStageLogged

\* C10 (as claimed): the raw-point fallback does not run the validator: the key
\* it returns has not been through the structural consistency check, and the
\* fallback accepts every octet string the engine's point decode accepts.
C10_FallbackSkipsValidator ==
    (/\ op = "try_parse_public_key_bytes"
     /\ ~args.parsed.ok
     /\ args.nid \in Curves /\ args.raw.ok /\ args.F = {})
        => /\ result.tag = "Ok"
           /\ ~StructuralCheckLogged
           /\ ~ReturnedEc.keyck

\* C10 (amended): the raw-point fallback runs validate_evp_key on the key it
\* assembled, against the curve id of the caller-stated group: a key it returns
\* has passed the curve-identity check and the structural consistency check,
\* and an octet string the engine's point decode accepts is accepted exactly
\* when the assembled key passes the structural check of the build.
C10_FallbackValidates ==
    (/\ op = "try_parse_public_key_bytes"
     /\ ~args.parsed.ok
     /\ args.nid \in Curves /\ args.raw.ok /\ args.F = {})
        => /\ StructuralCheckLogged
           /\ (result.tag = "Ok") <=> Passes(args.raw.q)
           /\ result.tag = "Ok" =>
                 /\ heap[result.key].src = "EVP_PKEY_new"
                 /\ ReturnedEc.nidck /\ ReturnedEc.keyck
                 /\ ReturnedEc.nid = args.nid
           /\ result.tag # "Ok" => result = Err("Unspecified")

C10_Witness ==
    /\ op = "try_parse_public_key_bytes"
    /\ ~args.parsed.ok
    /\ args.nid \in Curves /\ args.raw.ok /\ args.F = {}
    /\ ~Passes(args.raw.q)
    /\ result = Err("Unspecified")
    /\ StructuralCheckLogged

====
